---- MODULE Spec2Model ----
(***************************************************************************)
(* Model of the PayMover request pipeline: PaymoClient._make_request and   *)
(* _handle_response (client.py), DefaultRateLimitHandler (adapters.py),    *)
(* the exception taxonomy (exceptions.py) and the handler fixture used by  *)
(* the test-suite (tests/conftest.py); then PaymoClient._get_headers with  *)
(* the authentication providers, PaymoClient.delete and                    *)
(* PaymoClient.get_paginated.                                              *)
(*                                                                         *)
(* Spec is a client whose _make_request is called directly, TrackerSpec a  *)
(* DefaultRateLimitHandler called directly, ApiSpec a client whose delete  *)
(* and get_paginated are called.                                           *)
(*                                                                         *)
(* Python values are represented as follows.                               *)
(*   str header value : a sequence of one-character strings                *)
(*   Optional[x]      : <<>> for None, <<x>> for a present value           *)
(*   exception        : a record [kind, message, status_code, retry_after, *)
(*                      response_data]                                     *)
(*   dict (headers sent, params) : a function from its keys                *)
(***************************************************************************)
EXTENDS Integers, Sequences, FiniteSets, TLC

VARIABLES
    handler,          \* self.rate_limit_handler: which RateLimitHandler the client holds
    rate_limit_info,  \* DefaultRateLimitHandler.rate_limit_info (Optional[RateLimitInfo])
    pc,               \* position of the call inside _make_request
    method,           \* argument `method`
    max_retries,      \* argument `max_retries`
    attempt,          \* loop variable `attempt`
    response,         \* local variable `response`
    outcome,          \* how the call ended: returned value or raised exception
    attempts,         \* loop iterations entered by this call
    transportCalls,   \* http_client invocations of this call
    responsesSeen,    \* http_client invocations of this call that returned a response
    updateCalls,      \* update_rate_limit_info invocations of this call
    updateArg,        \* the response update_rate_limit_info has been invoked with
                      \* in the current attempt
    sleeps,           \* arguments of the time.sleep calls of this call, in order
    why,              \* for each sleep, the branch of _make_request that slept
    auth,             \* self.auth_provider: which AuthenticationProvider the client holds
    request_headers,  \* local variable `headers` of _make_request
    sentHeaders,      \* keyword `headers` of the latest http_client invocation of this call
    apiCall,          \* the public method in progress ("_make_request" when called directly)
    apiOutcome,       \* how the public method ended
    params,           \* the caller's `params` mapping (get_paginated), as it is now
    base_params,      \* the caller's `params` mapping as it was when get_paginated was entered
    page_size,        \* argument `page_size` of get_paginated
    page,             \* local variable `page` of get_paginated
    paginated_params, \* local variable `paginated_params` of get_paginated
    all_results,      \* local variable `all_results` of get_paginated
    fetched,          \* the item list of each page get_paginated has received, in order
    getCalls,         \* self.get invocations of this get_paginated call
    cfg,              \* the PaymoConfig instance at hand (Optional)
    validated,        \* how PaymoConfig.validate ended on cfg
    loops,            \* the calls that run _make_request concurrently on this client,
                      \* each with its own local variables
    observed          \* the snapshots update_rate_limit_info has built from the responses
                      \* the concurrent calls received

\* what get_paginated and delete hold; _make_request never touches it
wrapper == <<apiCall, apiOutcome, params, base_params, page_size, page, paginated_params,
             all_results, fetched, getCalls>>

\* what only PaymoConfig and the concurrent calls hold
side == <<cfg, validated, loops, observed>>

config == <<handler, method, max_retries, auth, request_headers, wrapper, side>>

counters == <<attempts, transportCalls, responsesSeen, updateCalls>>

vars == <<config, rate_limit_info, pc, attempt, response, updateArg, outcome, counters,
          sleeps, why, sentHeaders>>

(* ------------------------------ bounds --------------------------------- *)

\* largest max_retries a call is started with
MaxRetriesBound == 2

(* --------------------------- Python helpers ---------------------------- *)

None == <<>>

Some(x) == <<x>>

Digits == {"0", "1", "2", "3", "4", "5", "6", "7", "8", "9"}

DigitVal(c) ==
    CASE c = "0" -> 0 [] c = "1" -> 1 [] c = "2" -> 2 [] c = "3" -> 3
      [] c = "4" -> 4 [] c = "5" -> 5 [] c = "6" -> 6 [] c = "7" -> 7
      [] c = "8" -> 8 [] c = "9" -> 9

\* int(s) / float(s) succeed on a decimal numeral and raise ValueError otherwise
IsNumeral(s) == Len(s) > 0 /\ \A i \in 1..Len(s) : s[i] \in Digits

RECURSIVE ParseInt(_)
ParseInt(s) ==
    IF Len(s) = 0 THEN 0
    ELSE 10 * ParseInt(SubSeq(s, 1, Len(s) - 1)) + DigitVal(s[Len(s)])

\* truth value of an Optional[str]: None and "" are falsy
TruthyStr(o) == o # None /\ Len(o[1]) > 0

RECURSIVE Pow2(_)
Pow2(n) == IF n = 0 THEN 1 ELSE 2 * Pow2(n - 1)

(* ------------------------------ responses ------------------------------ *)

HeaderNames == {"Retry-After", "X-Ratelimit-Limit", "X-Ratelimit-Remaining",
                "X-Ratelimit-Decay-Period"}

RateLimitHeaderNames == HeaderNames \ {"Retry-After"}

\* dict.get(name): the value, or None when the key is absent
HeadersGet(headers, name) ==
    IF name \in DOMAIN headers THEN Some(headers[name]) ELSE None

EmptyDict == [type |-> "dict", keys |-> {}, message |-> ""]

DictWithMessage == [type |-> "dict", keys |-> {"message"}, message |-> "Custom failure"]

ListBody == [type |-> "list", keys |-> {}, message |-> ""]

NoneBody == [type |-> "none", keys |-> {}, message |-> ""]

Bodies == {DictWithMessage, ListBody}

HTTPResponse(status, headers, data) ==
    [status_code |-> status, headers |-> headers, data |-> data]

\* value of the local variable `response` before the Transport has answered
NoResponse == HTTPResponse(0, <<>>, NoneBody)

Statuses == {200, 299, 300, 401, 404, 422, 429, 500, 599}

\* Retry-After values a server sends: "", "0", "7" and a non-numeric value
\* (an HTTP-date)
RetryAfterValues == {<<>>, <<"0">>, <<"7">>, <<"x">>}

RateLimitValues == {<<"5">>, <<"9">>, <<"x">>}

\* header mappings a response carries: no rate-limit header, all three, or all
\* but one of them; at most one value differs from "5" and only the limit is
\* ever "9".  Retry-After accompanies status 429 only (the only status under
\* which the code reads it).
RateLimitHeaderSets ==
    { h \in UNION { [D -> RateLimitValues] : D \in SUBSET RateLimitHeaderNames } :
        /\ Cardinality(DOMAIN h) \in {0, 2, 3}
        /\ Cardinality({n \in DOMAIN h : h[n] # <<"5">>}) <= 1
        /\ \A n \in DOMAIN h : h[n] = <<"9">> => n = "X-Ratelimit-Limit"
        /\ \A n \in DOMAIN h : h[n] # <<"5">> => Cardinality(DOMAIN h) = 3 }

WithRetryAfter(h, v) ==
    [n \in DOMAIN h \cup {"Retry-After"} |-> IF n = "Retry-After" THEN v ELSE h[n]]

HeaderSets(status) ==
    IF status = 429
    THEN RateLimitHeaderSets \cup
         { WithRetryAfter(h, v) : h \in RateLimitHeaderSets, v \in RetryAfterValues }
    ELSE RateLimitHeaderSets

Responses ==
    UNION { { HTTPResponse(s, h, d) : h \in HeaderSets(s), d \in Bodies } : s \in Statuses }

(* ------------------------------ exceptions ----------------------------- *)

\* response_data or {}
DataOrEmpty(data) == IF data.type = "none" THEN EmptyDict ELSE data

PaymoAPIError(kind, message, status_code, retry_after, response_data) ==
    [kind |-> kind, message |-> message, status_code |-> status_code,
     retry_after |-> retry_after, response_data |-> DataOrEmpty(response_data)]

ValueError == PaymoAPIError("ValueError", "invalid literal", None, None, NoneBody)

NoError == PaymoAPIError("", "", None, None, NoneBody)

RequestFailed == PaymoAPIError("PaymoAPIError", "Request failed", None, None, NoneBody)

UnsupportedMethod ==
    PaymoAPIError("PaymoAPIError", "Unsupported HTTP method", None, None, NoneBody)

MaxRetriesExceeded ==
    PaymoAPIError("PaymoAPIError", "Max retries exceeded", None, None, NoneBody)

\* result of evaluating a Python expression: a value or a raised exception
Ok(v) == [raised |-> FALSE, value |-> v, error |-> NoError]

Raises(e) == [raised |-> TRUE, value |-> NoneBody, error |-> e]


(* ----------------------- Rate Limit Tracker ---------------------------- *)

RateLimitInfo(limit, remaining, decay_period) ==
    [limit |-> limit, remaining |-> remaining, decay_period |-> decay_period,
     retry_after |-> None]

\* variant of DefaultShouldRetry: a 429 without Retry-After is left to
\* classification
DefaultShouldRetryNeedsHeader(resp) ==
    resp.status_code = 429 /\ "Retry-After" \in DOMAIN resp.headers

DefaultShouldRetry(resp) == resp.status_code = 429

DefaultGetRetryDelay(resp) ==
    LET retry_after == HeadersGet(resp.headers, "Retry-After")
    IN  IF TruthyStr(retry_after)
        THEN IF IsNumeral(retry_after[1])
             THEN Ok(ParseInt(retry_after[1]))
             ELSE Raises(ValueError)
        ELSE Ok(60)

\* variant of DefaultUpdateRateLimitInfo: each header that is present
\* overwrites its own field of the stored snapshot
DefaultUpdatePartial(info, resp) ==
    LET limit        == HeadersGet(resp.headers, "X-Ratelimit-Limit")
        remaining    == HeadersGet(resp.headers, "X-Ratelimit-Remaining")
        decay_period == HeadersGet(resp.headers, "X-Ratelimit-Decay-Period")
        old          == IF info = None THEN RateLimitInfo(0, 0, 0) ELSE info[1]
        Field(o, v)  == IF TruthyStr(o) /\ IsNumeral(o[1]) THEN ParseInt(o[1]) ELSE v
    IN  IF TruthyStr(limit) /\ TruthyStr(remaining) /\ TruthyStr(decay_period)
           /\ ~(IsNumeral(limit[1]) /\ IsNumeral(remaining[1]) /\ IsNumeral(decay_period[1]))
        THEN Raises(ValueError)
        ELSE IF TruthyStr(limit) \/ TruthyStr(remaining) \/ TruthyStr(decay_period)
        THEN Ok(Some(RateLimitInfo(Field(limit, old.limit), Field(remaining, old.remaining),
                                   Field(decay_period, old.decay_period))))
        ELSE Ok(info)

\* the new value of self.rate_limit_info, or the ValueError raised by int()
DefaultUpdateRateLimitInfo(info, resp) ==
    LET limit        == HeadersGet(resp.headers, "X-Ratelimit-Limit")
        remaining    == HeadersGet(resp.headers, "X-Ratelimit-Remaining")
        decay_period == HeadersGet(resp.headers, "X-Ratelimit-Decay-Period")
    IN  IF TruthyStr(limit) /\ TruthyStr(remaining) /\ TruthyStr(decay_period)
        THEN IF IsNumeral(limit[1]) /\ IsNumeral(remaining[1]) /\ IsNumeral(decay_period[1])
             THEN Ok(Some(RateLimitInfo(ParseInt(limit[1]), ParseInt(remaining[1]),
                                        ParseInt(decay_period[1]))))
             ELSE Raises(ValueError)
        ELSE Ok(info)

\* the handler fixture of the test-suite: never retries, fixed delay, records nothing
MockShouldRetry(resp) == FALSE

MockGetRetryDelay(resp) == Ok(60)

MockUpdateRateLimitInfo(info, resp) == Ok(info)

Handlers == {"DefaultRateLimitHandler", "Mock"}

ShouldRetry(h, resp) ==
    IF h = "DefaultRateLimitHandler" THEN DefaultShouldRetry(resp) ELSE MockShouldRetry(resp)

GetRetryDelay(h, resp) ==
    IF h = "DefaultRateLimitHandler" THEN DefaultGetRetryDelay(resp) ELSE MockGetRetryDelay(resp)

\* variant of UpdateRateLimitInfo: a snapshot, once taken, is never replaced
UpdateKeepsFirst(h, info, resp) ==
    IF h = "DefaultRateLimitHandler"
    THEN IF info = None THEN DefaultUpdateRateLimitInfo(info, resp) ELSE Ok(info)
    ELSE MockUpdateRateLimitInfo(info, resp)

UpdateRateLimitInfo(h, info, resp) ==
    IF h = "DefaultRateLimitHandler"
    THEN DefaultUpdateRateLimitInfo(info, resp)
    ELSE MockUpdateRateLimitInfo(info, resp)

(* --------------------------- classification ---------------------------- *)

HandleResponse(resp) ==
    LET status_code == resp.status_code
    IN  IF 200 <= status_code /\ status_code < 300 THEN Ok(resp.data)
        ELSE IF status_code = 401 THEN
            Raises(PaymoAPIError("PaymoAuthenticationError",
                "Authentication failed. Please check your credentials.",
                Some(status_code), None, resp.data))
        ELSE IF status_code = 404 THEN
            Raises(PaymoAPIError("PaymoNotFoundError", "Resource not found.",
                Some(status_code), None, resp.data))
        ELSE IF status_code = 422 THEN
            Raises(PaymoAPIError("PaymoValidationError",
                "Validation error. Please check your request data.",
                Some(status_code), None, resp.data))
        ELSE IF status_code = 429 THEN
            LET retry_after == HeadersGet(resp.headers, "Retry-After")
            IN  IF TruthyStr(retry_after) /\ ~IsNumeral(retry_after[1])
                THEN Raises(ValueError)
                ELSE Raises(PaymoAPIError("PaymoRateLimitError",
                        "Rate limit exceeded. Please try again later.",
                        Some(status_code),
                        IF TruthyStr(retry_after) THEN Some(ParseInt(retry_after[1])) ELSE None,
                        resp.data))
        ELSE IF 500 <= status_code /\ status_code < 600 THEN
            Raises(PaymoAPIError("PaymoServerError",
                "Server error occurred (HTTP {status_code}).",
                Some(status_code), None, resp.data))
        ELSE
            Raises(PaymoAPIError("PaymoAPIError",
                IF resp.data.type = "dict" /\ "message" \in resp.data.keys
                THEN resp.data.message ELSE "Unknown error occurred",
                Some(status_code), None, resp.data))

(* ------------------------------ dispatcher ----------------------------- *)

Methods == {"GET", "POST", "PUT", "DELETE", "PATCH"}

SupportedMethods == {"GET", "POST", "PUT", "DELETE"}

NoOutcome == [kind |-> "none", value |-> NoneBody, error |-> NoError]

Returned(v) == [kind |-> "return", value |-> v, error |-> NoError]

Raised(e) == [kind |-> "raise", value |-> NoneBody, error |-> e]

\* e.retry_after or 60.0
RetryAfterOr60(e) ==
    IF e.retry_after # None /\ e.retry_after[1] # 0 THEN e.retry_after[1] ELSE 60

\* variant of SleepAndContinue: a retry does not consume an attempt
SleepAndRepeat(delay, branch) ==
    /\ sleeps' = Append(sleeps, delay)
    /\ why' = Append(why, branch)
    /\ attempt' = attempt
    /\ response' = NoResponse
    /\ updateArg' = NoResponse
    /\ pc' = "loop"
    /\ outcome' = outcome

\* time.sleep(delay); continue
SleepAndContinue(delay, branch) ==
    /\ sleeps' = Append(sleeps, delay)
    /\ why' = Append(why, branch)
    /\ attempt' = attempt + 1
    /\ response' = NoResponse
    /\ updateArg' = NoResponse
    /\ pc' = "loop"
    /\ outcome' = outcome

\* the call ends: `return v` or an exception leaving _make_request
Finish(o) ==
    /\ outcome' = o
    /\ pc' = "done"
    /\ response' = NoResponse
    /\ updateArg' = NoResponse
    /\ UNCHANGED <<attempt, sleeps, why>>

\* variant of Except: an exhausted call falls through to the statement after
\* the loop instead of re-raising
ExceptFallsThrough(e, branch) ==
    IF e.kind = "PaymoRateLimitError"
    THEN IF attempt < max_retries
         THEN SleepAndContinue(RetryAfterOr60(e), "ratelimit")
         ELSE Finish(Raised(MaxRetriesExceeded))
    ELSE IF attempt < max_retries
         THEN SleepAndContinue(Pow2(attempt), branch)
         ELSE Finish(Raised(MaxRetriesExceeded))

\* variant of Except: the backoff exponent counts the earlier backoff sleeps
\* of the call instead of the attempts
ExceptCountsFailures(e, branch) ==
    IF e.kind = "PaymoRateLimitError"
    THEN IF attempt < max_retries
         THEN SleepAndContinue(RetryAfterOr60(e), "ratelimit")
         ELSE Finish(Raised(e))
    ELSE IF attempt < max_retries
         THEN SleepAndContinue(
                Pow2(Cardinality({i \in 1..Len(why) : why[i] \notin {"tracker", "ratelimit"}})),
                branch)
         ELSE Finish(Raised(e))

\* variant of Except: `except Exception` lets the typed errors of
\* exceptions.py through instead of retrying them
ExceptPropagatesTyped(e, branch) ==
    IF e.kind = "PaymoRateLimitError"
    THEN IF attempt < max_retries
         THEN SleepAndContinue(RetryAfterOr60(e), "ratelimit")
         ELSE Finish(Raised(e))
    ELSE IF attempt < max_retries /\ e.kind = "ValueError"
         THEN SleepAndContinue(Pow2(attempt), branch)
         ELSE Finish(Raised(e))

\* the except clauses of the attempt loop, entered with exception e raised in
\* the try body; `branch` records where a backoff sleep came from
Except(e, branch) ==
    IF e.kind = "PaymoRateLimitError"
    THEN IF attempt < max_retries
         THEN SleepAndContinue(RetryAfterOr60(e), "ratelimit")
         ELSE Finish(Raised(e))
    ELSE IF attempt < max_retries
         THEN SleepAndContinue(Pow2(attempt), branch)
         ELSE Finish(Raised(e))

\* for attempt in range(max_retries + 1): the loop body runs for this attempt
InLoop == attempt <= max_retries

(* --------------------------- request headers --------------------------- *)

\* d.update(e): the entries of e, and the entries of d under every other key
DictUpdate(d, e) ==
    [k \in DOMAIN d \cup DOMAIN e |-> IF k \in DOMAIN e THEN e[k] ELSE d[k]]

\* {}
EmptyMapping == [k \in {} |-> ""]

\* the providers of adapters.py, the fixture of tests/conftest.py and a
\* provider of the caller's own that sets the content negotiation headers
AuthProviders == {"BasicAuthProvider", "APIKeyAuthProvider", "Mock", "Custom"}

\* auth_provider.get_headers()
AuthGetHeaders(a) ==
    IF a = "BasicAuthProvider" THEN EmptyMapping
    ELSE IF a = "APIKeyAuthProvider" THEN [k \in {"Authorization"} |-> "Basic a2V5Ong="]
    ELSE IF a = "Mock" THEN [k \in {"Authorization"} |-> "Bearer token"]
    ELSE [k \in {"Accept", "Content-Type"} |-> "application/xml"]

DefaultHeaders == [k \in {"Accept", "Content-Type"} |-> "application/json"]

\* variant of GetHeaders: the defaults are applied over the provider's headers
GetHeadersDefaultsWin(a) == DictUpdate(AuthGetHeaders(a), DefaultHeaders)

\* self._get_headers()
GetHeaders(a) == DictUpdate(DefaultHeaders, AuthGetHeaders(a))

(* ------------------------ pages and their bodies ----------------------- *)

\* most pages an upstream collection has
MaxPages == 3

\* default of the parameter max_retries of _make_request
DefaultMaxRetries == 3

PageSizes == {1, 2}

ItemLists == {<<>>, <<"c">>, <<"a", "b">>, <<"b", "a">>}

\* a JSON array
ListOf(items) ==
    [type |-> "list", keys |-> {}, message |-> "", items |-> items,
     data |-> <<>>, results |-> <<>>]

\* a JSON object with the given keys among 'data' and 'results'
DictOf(keys, data, results) ==
    [type |-> "dict", keys |-> keys, message |-> "", items |-> <<>>,
     data |-> data, results |-> results]

PageBodies ==
    { ListOf(i) : i \in ItemLists }
      \cup { DictOf({"data"}, d, <<>>) : d \in ItemLists }
      \cup { DictOf({"results"}, <<>>, r) : r \in ItemLists }
      \cup { DictOf({"data", "results"}, d, r) : d \in ItemLists, r \in ItemLists }
      \cup {DictWithMessage, NoneBody}

\* variant of Results: 'results' is looked up before 'data'
ResultsPrefersResults(body) ==
    IF body.type = "list" THEN Some(body.items)
    ELSE IF body.type = "dict"
    THEN Some(IF "results" \in body.keys THEN body.results
              ELSE IF "data" \in body.keys THEN body.data
              ELSE <<>>)
    ELSE None

\* local variable `results` of get_paginated; None when the body is neither a
\* list nor a dict
Results(body) ==
    IF body.type = "list" THEN Some(body.items)
    ELSE IF body.type = "dict"
    THEN Some(IF "data" \in body.keys THEN body.data
              ELSE IF "results" \in body.keys THEN body.results
              ELSE <<>>)
    ELSE None

\* the loop of get_paginated goes on to another page after this body
Continues(body, size) ==
    /\ Results(body) # None
    /\ Results(body)[1] # <<>>
    /\ ~(Len(Results(body)[1]) < size)

\* answers to a page request: a page body, or a missing collection
PageResponses ==
    { HTTPResponse(200, <<>>, b) : b \in PageBodies }
      \cup {HTTPResponse(404, <<>>, DictWithMessage)}

\* answers to a DELETE: each status class, and a success whose rate-limit
\* headers do not parse
DeleteResponses ==
    { HTTPResponse(s, <<>>, DictWithMessage) : s \in {204, 401, 404, 422, 429, 500} }
      \cup { HTTPResponse(s, [n \in RateLimitHeaderNames |->
                                 IF n = "X-Ratelimit-Limit" THEN <<"x">> ELSE <<"5">>],
                          NoneBody) : s \in {204} }

\* what the Transport may answer to the call in progress
TransportAnswers ==
    IF apiCall = "get_paginated"
    THEN { r \in PageResponses : page < MaxPages \/ ~Continues(r.data, page_size) }
    ELSE IF apiCall = "delete" THEN DeleteResponses
    ELSE Responses

\* the caller's params argument: None, {}, a filter, or a mapping that
\* already holds the paging keys
ParamsValues ==
    {None,
     Some(EmptyMapping),
     Some([k \in {"where"} |-> 0]),
     Some([k \in {"where", "page", "per_page"} |-> IF k = "where" THEN 0 ELSE 9])}

NoApiOutcome == [kind |-> "none", items |-> <<>>, flag |-> FALSE, error |-> NoError]

ApiReturned(items, flag) ==
    [kind |-> "return", items |-> items, flag |-> flag, error |-> NoError]

ApiRaised(e) == [kind |-> "raise", items |-> <<>>, flag |-> FALSE, error |-> e]

\* variant of IsPaymoAPIError: the except clause matches the base class only
IsExactlyPaymoAPIError(e) == e.kind = "PaymoAPIError"

\* except PaymoAPIError: the class and its five subclasses
IsPaymoAPIError(e) ==
    e.kind \in {"PaymoAPIError", "PaymoAuthenticationError", "PaymoRateLimitError",
                "PaymoValidationError", "PaymoNotFoundError", "PaymoServerError"}

\* the threads of the caller that use one client at the same time
Loops == {1, 2}

\* the local variables of _make_request in a thread that has not entered it
IdleLoop ==
    [pc |-> "idle", max_retries |-> 0, attempt |-> 0, response |-> NoResponse,
     built |-> None, outcome |-> "none"]

\* PaymoClient(http_client, auth_provider, rate_limit_handler, logger)
ClientInit(providers) ==
    /\ handler \in Handlers
    /\ auth \in providers
    /\ request_headers = EmptyMapping
    /\ sentHeaders = None
    /\ apiCall = "_make_request"
    /\ apiOutcome = NoApiOutcome
    /\ params = None
    /\ base_params = None
    /\ page_size = 1
    /\ page = 1
    /\ paginated_params = EmptyMapping
    /\ all_results = <<>>
    /\ fetched = <<>>
    /\ getCalls = 0
    /\ rate_limit_info = None
    /\ pc = "idle"
    /\ method = "GET"
    /\ max_retries = 0
    /\ attempt = 0
    /\ response = NoResponse
    /\ updateArg = NoResponse
    /\ outcome = NoOutcome
    /\ attempts = 0
    /\ transportCalls = 0
    /\ responsesSeen = 0
    /\ updateCalls = 0
    /\ sleeps = <<>>
    /\ why = <<>>
    /\ cfg = None
    /\ validated = NoOutcome
    /\ loops = [t \in Loops |-> IdleLoop]
    /\ observed = {}

Init == ClientInit({"APIKeyAuthProvider"})

\* _make_request(m, ..., max_retries=mr) up to the head of its loop
MakeRequest(m, mr) ==
    /\ method' = m
    /\ max_retries' = mr
    /\ request_headers' = GetHeaders(auth)
    /\ sentHeaders' = None
    /\ attempt' = 0
    /\ response' = NoResponse
    /\ updateArg' = NoResponse
    /\ outcome' = NoOutcome
    /\ attempts' = 0
    /\ transportCalls' = 0
    /\ responsesSeen' = 0
    /\ updateCalls' = 0
    /\ sleeps' = <<>>
    /\ why' = <<>>
    /\ pc' = "loop"
    /\ UNCHANGED <<handler, auth, rate_limit_info, side>>

\* a caller enters _make_request(method, ..., max_retries)
Begin ==
    /\ pc \in {"idle", "done"}
    /\ apiCall = "_make_request"
    /\ \E m \in Methods, mr \in -1..MaxRetriesBound : MakeRequest(m, mr)
    /\ UNCHANGED wrapper

\* an attempt whose http_client call returns a response
TransportResponds ==
    /\ pc = "loop"
    /\ InLoop
    /\ method \in SupportedMethods
    /\ \E r \in TransportAnswers : response' = r
    /\ sentHeaders' = Some(request_headers)
    /\ attempts' = attempts + 1
    /\ transportCalls' = transportCalls + 1
    /\ responsesSeen' = responsesSeen + 1
    /\ pc' = "update"
    /\ UNCHANGED <<config, rate_limit_info, attempt, updateArg, outcome, updateCalls,
                   sleeps, why>>

\* an attempt whose http_client call raises (connection error, timeout)
TransportFails ==
    /\ pc = "loop"
    /\ InLoop
    /\ method \in SupportedMethods
    /\ sentHeaders' = Some(request_headers)
    /\ attempts' = attempts + 1
    /\ transportCalls' = transportCalls + 1
    /\ Except(RequestFailed, "transport")
    /\ UNCHANGED <<config, rate_limit_info, responsesSeen, updateCalls>>

\* an attempt with a method that is none of GET, POST, PUT, DELETE
Unsupported ==
    /\ pc = "loop"
    /\ InLoop
    /\ method \notin SupportedMethods
    /\ attempts' = attempts + 1
    /\ Except(UnsupportedMethod, "unsupported")
    /\ UNCHANGED <<config, rate_limit_info, transportCalls, responsesSeen, updateCalls,
                   sentHeaders>>

\* the statement after the loop
LoopExhausted ==
    /\ pc = "loop"
    /\ ~InLoop
    /\ Finish(Raised(MaxRetriesExceeded))
    /\ UNCHANGED <<config, rate_limit_info, counters, sentHeaders>>

\* variant of Update: the Tracker is fed only responses that are not failures
UpdateOnlyOnSuccess ==
    /\ pc = "update"
    /\ IF response.status_code >= 400
       THEN /\ pc' = "check"
            /\ UNCHANGED <<rate_limit_info, updateCalls, updateArg, attempt, response,
                           outcome, sleeps, why>>
       ELSE /\ updateCalls' = updateCalls + 1
            /\ LET u == UpdateRateLimitInfo(handler, rate_limit_info, response)
               IN  IF u.raised
                   THEN /\ Except(u.error, "error")
                        /\ UNCHANGED rate_limit_info
                   ELSE /\ rate_limit_info' = u.value
                        /\ updateArg' = response
                        /\ pc' = "check"
                        /\ UNCHANGED <<attempt, response, outcome, sleeps, why>>
    /\ UNCHANGED <<config, attempts, transportCalls, responsesSeen, sentHeaders>>

\* self.rate_limit_handler.update_rate_limit_info(response)
Update ==
    /\ pc = "update"
    /\ updateCalls' = updateCalls + 1
    /\ LET u == UpdateRateLimitInfo(handler, rate_limit_info, response)
       IN  IF u.raised
           THEN /\ Except(u.error, IF response.status_code = 429 THEN "error429" ELSE "error")
                /\ UNCHANGED rate_limit_info
           ELSE /\ rate_limit_info' = u.value
                /\ updateArg' = response
                /\ pc' = "check"
                /\ UNCHANGED <<attempt, response, outcome, sleeps, why>>
    /\ UNCHANGED <<config, attempts, transportCalls, responsesSeen, sentHeaders>>

\* variant of Check: the Tracker-driven sleep is not followed by `continue`
CheckWithoutContinue ==
    /\ pc = "check"
    /\ IF ShouldRetry(handler, response) /\ attempt < max_retries
       THEN LET delay == GetRetryDelay(handler, response)
            IN  IF delay.raised
                THEN Except(delay.error, "error429")
                ELSE /\ sleeps' = Append(sleeps, delay.value)
                     /\ why' = Append(why, "tracker")
                     /\ pc' = "classify"
                     /\ UNCHANGED <<attempt, response, updateArg, outcome>>
       ELSE /\ pc' = "classify"
            /\ UNCHANGED <<attempt, response, updateArg, outcome, sleeps, why>>
    /\ UNCHANGED <<config, rate_limit_info, counters, sentHeaders>>

\* if should_retry(response) and attempt < max_retries: sleep(get_retry_delay(response))
Check ==
    /\ pc = "check"
    /\ IF ShouldRetry(handler, response) /\ attempt < max_retries
       THEN LET delay == GetRetryDelay(handler, response)
            IN  IF delay.raised
                THEN Except(delay.error, "error429")
                ELSE SleepAndContinue(delay.value, "tracker")
       ELSE /\ pc' = "classify"
            /\ UNCHANGED <<attempt, response, updateArg, outcome, sleeps, why>>
    /\ UNCHANGED <<config, rate_limit_info, counters, sentHeaders>>

\* return self._handle_response(response)
Classify ==
    /\ pc = "classify"
    /\ LET r == HandleResponse(response)
       IN  IF r.raised
           THEN Except(r.error, IF response.status_code = 429 THEN "error429" ELSE "error")
           ELSE Finish(Returned(r.value))
    /\ UNCHANGED <<config, rate_limit_info, counters, sentHeaders>>

Next ==
    \/ Begin
    \/ TransportResponds
    \/ TransportFails
    \/ Unsupported
    \/ LoopExhausted
    \/ Update
    \/ Check
    \/ Classify

Spec == Init /\ [][Next]_vars

\* every step of a call in progress is taken: the call runs on the caller's
\* thread and each Transport call and each sleep returns
Step == TransportResponds \/ TransportFails \/ Unsupported \/ LoopExhausted
            \/ Update \/ Check \/ Classify

FairSpec == Spec /\ WF_vars(Step)

TypeOK ==
    /\ handler \in Handlers
    /\ pc \in {"idle", "loop", "update", "check", "classify", "done"}
    /\ method \in Methods
    /\ max_retries \in -1..MaxRetriesBound
    /\ attempt \in 0..(MaxRetriesBound + 1)
    /\ response \in Responses \cup {NoResponse}
    /\ auth \in AuthProviders
    /\ apiCall = "_make_request"
    /\ Len(sleeps) = Len(why)

(* --------------------- delete and get_paginated ------------------------ *)

\* everything _make_request reads or writes
dispatcher == <<handler, method, max_retries, auth, request_headers, rate_limit_info, pc,
                attempt, response, updateArg, outcome, counters, sleeps, why, sentHeaders,
                side>>

\* what the client, its Rate Limit Tracker and its sequential calls hold
client == <<handler, method, max_retries, auth, request_headers, wrapper, rate_limit_info,
            pc, attempt, response, updateArg, outcome, counters, sleeps, why, sentHeaders>>

\* no public method is in progress
Callable ==
    /\ pc \in {"idle", "done"}
    /\ apiCall = "_make_request" \/ apiOutcome.kind # "none"

\* a caller enters delete(endpoint): self._make_request("DELETE", endpoint)
CallDelete ==
    /\ Callable
    /\ apiCall' = "delete"
    /\ apiOutcome' = NoApiOutcome
    /\ params' = None
    /\ base_params' = None
    /\ page_size' = 1
    /\ page' = 1
    /\ paginated_params' = EmptyMapping
    /\ all_results' = <<>>
    /\ fetched' = <<>>
    /\ getCalls' = 0
    /\ MakeRequest("DELETE", DefaultMaxRetries)

\* delete after its _make_request call has ended: return True, or
\* except PaymoAPIError: return False
DeleteReturns ==
    /\ apiCall = "delete"
    /\ pc = "done"
    /\ apiOutcome.kind = "none"
    /\ apiOutcome' =
          IF outcome.kind = "return" THEN ApiReturned(<<>>, TRUE)
          ELSE IF IsPaymoAPIError(outcome.error) THEN ApiReturned(<<>>, FALSE)
          ELSE ApiRaised(outcome.error)
    /\ UNCHANGED <<dispatcher, apiCall, params, base_params, page_size, page,
                   paginated_params, all_results, fetched, getCalls>>

\* params or {}
ParamsOrEmpty(p) == IF p = None \/ p = Some(EmptyMapping) THEN EmptyMapping ELSE p[1]

\* {'page': page, 'per_page': page_size}
Paging(n, size) == [k \in {"page", "per_page"} |-> IF k = "page" THEN n ELSE size]

\* variant of PageLoop: the caller's entries are applied over the paging keys
PageLoopBaseWins(p, n, size) ==
    /\ page' = n
    /\ paginated_params' = DictUpdate(Paging(n, size), ParamsOrEmpty(p))
    /\ params' = IF p = None \/ p = Some(EmptyMapping) THEN p ELSE Some(paginated_params')
    /\ MakeRequest("GET", DefaultMaxRetries)

\* one pass of the loop of get_paginated from its head to self.get: the
\* mapping handed to self.get is the caller's own mapping when that is
\* non-empty, so the update shows in it
PageLoop(p, n, size) ==
    /\ page' = n
    /\ paginated_params' = DictUpdate(ParamsOrEmpty(p), Paging(n, size))
    /\ params' = IF p = None \/ p = Some(EmptyMapping) THEN p ELSE Some(paginated_params')
    /\ MakeRequest("GET", DefaultMaxRetries)

\* a caller enters get_paginated(endpoint, params, page_size)
CallGetPaginated ==
    /\ Callable
    /\ \E p \in ParamsValues, size \in PageSizes :
          /\ base_params' = p
          /\ page_size' = size
          /\ PageLoop(p, 1, size)
    /\ apiCall' = "get_paginated"
    /\ apiOutcome' = NoApiOutcome
    /\ all_results' = <<>>
    /\ fetched' = <<>>
    /\ getCalls' = 1

\* variant of PageFails: a failed page ends the loop like an empty one
PageFailsReturnsPartial ==
    /\ apiCall = "get_paginated"
    /\ pc = "done"
    /\ apiOutcome.kind = "none"
    /\ outcome.kind = "raise"
    /\ apiOutcome' = ApiReturned(all_results, FALSE)
    /\ UNCHANGED <<dispatcher, apiCall, params, base_params, page_size, page,
                   paginated_params, all_results, fetched, getCalls>>

\* self.get raised: get_paginated has no handler, the exception leaves it
PageFails ==
    /\ apiCall = "get_paginated"
    /\ pc = "done"
    /\ apiOutcome.kind = "none"
    /\ outcome.kind = "raise"
    /\ apiOutcome' = ApiRaised(outcome.error)
    /\ UNCHANGED <<dispatcher, apiCall, params, base_params, page_size, page,
                   paginated_params, all_results, fetched, getCalls>>

\* variant of PageReturns: the length test comes before the extend
PageReturnsDropsShortPage ==
    /\ apiCall = "get_paginated"
    /\ pc = "done"
    /\ apiOutcome.kind = "none"
    /\ outcome.kind = "return"
    /\ LET results == Results(outcome.value)
           items   == IF results = None THEN <<>> ELSE results[1]
       IN  /\ fetched' = Append(fetched, items)
           /\ IF Continues(outcome.value, page_size)
              THEN /\ all_results' = all_results \o items
                   /\ getCalls' = getCalls + 1
                   /\ PageLoop(params, page + 1, page_size)
                   /\ UNCHANGED <<apiCall, apiOutcome, base_params, page_size>>
              ELSE /\ all_results' = all_results
                   /\ apiOutcome' = ApiReturned(all_results', FALSE)
                   /\ UNCHANGED <<dispatcher, apiCall, params, base_params, page_size, page,
                                  paginated_params, getCalls>>

\* self.get returned a body: the rest of the loop body, and either the
\* return or the next pass up to self.get
PageReturns ==
    /\ apiCall = "get_paginated"
    /\ pc = "done"
    /\ apiOutcome.kind = "none"
    /\ outcome.kind = "return"
    /\ LET results == Results(outcome.value)
           items   == IF results = None THEN <<>> ELSE results[1]
       IN  /\ fetched' = Append(fetched, items)
           /\ all_results' = all_results \o items
           /\ IF Continues(outcome.value, page_size)
              THEN /\ getCalls' = getCalls + 1
                   /\ PageLoop(params, page + 1, page_size)
                   /\ UNCHANGED <<apiCall, apiOutcome, base_params, page_size>>
              ELSE /\ apiOutcome' = ApiReturned(all_results', FALSE)
                   /\ UNCHANGED <<dispatcher, apiCall, params, base_params, page_size, page,
                                  paginated_params, getCalls>>

ApiInit == ClientInit(AuthProviders)

ApiNext ==
    \/ CallDelete
    \/ CallGetPaginated
    \/ TransportResponds
    \/ TransportFails
    \/ Update
    \/ Check
    \/ Classify
    \/ DeleteReturns
    \/ PageFails
    \/ PageReturns

ApiSpec == ApiInit /\ [][ApiNext]_vars

ApiTypeOK ==
    /\ apiCall \in {"_make_request", "delete", "get_paginated"}
    /\ auth \in AuthProviders
    /\ page \in 1..MaxPages
    /\ page_size \in PageSizes
    /\ getCalls \in 0..MaxPages
    /\ Len(fetched) <= MaxPages
    /\ max_retries \in {0, DefaultMaxRetries}
    /\ response \in PageResponses \cup DeleteResponses \cup {NoResponse}

(* ------------------- the Tracker taken on its own ---------------------- *)

\* values of a rate-limit header in a response handed to the Tracker directly
TrackerHeaderValues == {<<>>, <<"0">>, <<"5">>, <<"x">>}

TrackerResponses ==
    { HTTPResponse(s, h, DictWithMessage) :
        s \in {200, 429},
        h \in UNION { [D -> TrackerHeaderValues] : D \in SUBSET RateLimitHeaderNames } }

TrackerInit == Init /\ handler = "DefaultRateLimitHandler"

\* a caller invokes DefaultRateLimitHandler.update_rate_limit_info(r)
Observe ==
    /\ pc = "idle"
    /\ \E r \in TrackerResponses :
          LET u == DefaultUpdateRateLimitInfo(rate_limit_info, r)
          IN  /\ response' = r
              /\ IF u.raised
                 THEN /\ outcome' = Raised(u.error)
                      /\ UNCHANGED rate_limit_info
                 ELSE /\ outcome' = Returned(NoneBody)
                      /\ rate_limit_info' = u.value
    /\ UNCHANGED <<config, pc, attempt, updateArg, counters, sleeps, why, sentHeaders>>

TrackerNext == Observe

TrackerSpec == TrackerInit /\ [][TrackerNext]_vars

(* =============================== claims ================================ *)

InFlight == pc \in {"update", "check", "classify"}

IsSuccess(status) == 200 <= status /\ status < 300

\* C1: once the Transport has returned a response with status 200..299, the
\* call performs no sleep and no further Transport invocation, never goes back
\* to the loop, and ends by returning that response's body; when that response
\* is the first of the call, the Transport has been invoked once and nothing
\* has been slept.
C1_SuccessReturnsBody ==
    [][ (InFlight /\ IsSuccess(response.status_code)) =>
          /\ pc' \in {"check", "classify", "done"}
          /\ sleeps' = sleeps
          /\ transportCalls' = transportCalls
          /\ pc' = "done" => outcome' = Returned(response.data)
          /\ attempt = 0 => (transportCalls = 1 /\ sleeps = <<>>) ]_vars

ClaimedKind(status) ==
    CASE status = 401 -> "PaymoAuthenticationError"
      [] status = 404 -> "PaymoNotFoundError"
      [] status = 422 -> "PaymoValidationError"
      [] status = 429 -> "PaymoRateLimitError"
      [] status >= 500 /\ status <= 599 -> "PaymoServerError"
      [] OTHER -> "PaymoAPIError"

\* C2: when a call ends on a response whose status is outside 200..299, it
\* ends by raising the error kind that belongs to that status (401
\* Authentication, 404 NotFound, 422 Validation, 429 RateLimit, 5xx Server,
\* otherwise Generic) and the error carries exactly that status code.
C2_ClassificationByStatus ==
    [][ (InFlight /\ pc' = "done" /\ ~IsSuccess(response.status_code)) =>
          /\ outcome'.kind = "raise"
          /\ outcome'.error.kind = ClaimedKind(response.status_code)
          /\ outcome'.error.status_code = Some(response.status_code) ]_vars

\* C3: classifying a response whose status is neither 2xx nor 429 ends the
\* call at once with the typed error of that status; when it is the first
\* response, the Transport has been invoked once and nothing is slept.
C3_ImmediatePropagation ==
    [][ (pc = "classify" /\ ~IsSuccess(response.status_code)
            /\ response.status_code # 429) =>
          /\ pc' = "done"
          /\ outcome'.kind = "raise"
          /\ outcome'.error.kind = ClaimedKind(response.status_code)
          /\ attempt = 0 => (transportCalls' = 1 /\ sleeps' = <<>>) ]_vars

\* every earlier attempt of the call was spent on a 429 response
OnlyRateLimitedSoFar ==
    \A i \in 1..Len(why) : why[i] \in {"tracker", "ratelimit", "error429"}

RetryAfterHeader == HeadersGet(response.headers, "Retry-After")

\* C4: in a call whose every response has status 429, the call does not end
\* before attempt max_retries, and it ends there by raising the RateLimit
\* error with status_code 429 and retry_after the integer value of that
\* response's Retry-After header (none when the header is absent), after
\* max_retries + 1 Transport invocations and max_retries sleeps.
C4_AllRateLimited ==
    [][ (InFlight /\ response.status_code = 429 /\ OnlyRateLimitedSoFar
            /\ max_retries >= 0) =>
          /\ attempt < max_retries => pc' # "done"
          /\ pc' = "done" =>
                /\ outcome'.kind = "raise"
                /\ outcome'.error.kind = "PaymoRateLimitError"
                /\ outcome'.error.status_code = Some(429)
                /\ RetryAfterHeader = None => outcome'.error.retry_after = None
                /\ (RetryAfterHeader # None /\ IsNumeral(RetryAfterHeader[1])) =>
                       outcome'.error.retry_after = Some(ParseInt(RetryAfterHeader[1]))
                /\ transportCalls' = max_retries + 1
                /\ Len(sleeps') = max_retries ]_vars

\* C5: with max_retries >= 1, a first response of status 429 with
\* Retry-After: n that the Tracker intercepts is neither classified nor
\* raised: the call sleeps once, for n seconds, and makes a second attempt;
\* and a 2xx response to that second attempt is returned after two Transport
\* invocations and that one sleep.
C5_RetryAfterThenSuccess ==
    [][ /\ (InFlight /\ attempt = 0 /\ max_retries >= 1
              /\ response.status_code = 429 /\ ShouldRetry(handler, response)
              /\ RetryAfterHeader # None /\ IsNumeral(RetryAfterHeader[1])) =>
             \/ pc' = "check" /\ sleeps' = sleeps /\ outcome' = NoOutcome
             \/ /\ pc' = "loop"
                /\ sleeps' = <<ParseInt(RetryAfterHeader[1])>>
                /\ why' = <<"tracker">>
                /\ transportCalls' = 1
                /\ outcome' = NoOutcome
        /\ (InFlight /\ attempt = 1 /\ why = <<"tracker">>
              /\ IsSuccess(response.status_code)) =>
             /\ pc' \in {"check", "classify", "done"}
             /\ sleeps' = sleeps
             /\ transportCalls' = 2
             /\ pc' = "done" => outcome' = Returned(response.data) ]_vars

\* C6: a call enters at most max_retries + 1 attempts, invokes the Transport
\* at most once per attempt, and, every Transport call and sleep returning,
\* ends with a returned body or a raised error.
C6_BoundedAttempts ==
    /\ [](/\ attempts <= max_retries + 1
          /\ transportCalls <= attempts
          /\ pc = "done" => outcome.kind \in {"return", "raise"})
    /\ (pc \in {"loop", "update", "check", "classify"}) ~> (pc = "done")

C6_Witness ==
    /\ pc = "done"
    /\ max_retries >= 2
    /\ attempts = max_retries + 1
    /\ transportCalls = max_retries + 1
    /\ "tracker" \in {why[i] : i \in 1..Len(why)}
    /\ "transport" \in {why[i] : i \in 1..Len(why)}

\* C7 as stated: a call that has used all max_retries + 1 attempts without
\* returning a body fails with the Generic error "Max retries exceeded".
C7_MaxRetriesExceeded ==
    (pc = "done" /\ outcome.kind = "raise" /\ max_retries >= 0
        /\ attempts = max_retries + 1) =>
    (outcome.error.kind = "PaymoAPIError"
        /\ outcome.error.message = "Max retries exceeded")

\* the exception raised by the operation the call is about to perform
RaisedInAttempt ==
    CASE pc = "update" -> UpdateRateLimitInfo(handler, rate_limit_info, response).error
      [] pc = "check" -> GetRetryDelay(handler, response).error
      [] pc = "classify" -> HandleResponse(response).error
      [] pc = "loop" /\ method \in SupportedMethods -> RequestFailed
      [] OTHER -> UnsupportedMethod

\* C7 as amended: a call that fails after entering an attempt fails in attempt
\* max_retries, with the exception raised in that attempt, re-raised
\* unchanged, and never with "Max retries exceeded"; that error is raised only
\* by a call that enters no attempt (max_retries < 0).
C7_LastErrorReraised ==
    [][ (pc' = "done" /\ outcome'.kind = "raise") =>
          IF attempts' = 0
          THEN max_retries < 0 /\ outcome'.error = MaxRetriesExceeded
          ELSE /\ attempts' = max_retries + 1
               /\ outcome'.error = RaisedInAttempt
               /\ outcome'.error.message # "Max retries exceeded" ]_vars

C7_Witness ==
    /\ pc = "done"
    /\ max_retries >= 1
    /\ attempts = max_retries + 1
    /\ outcome.kind = "raise"
    /\ outcome.error.kind = "PaymoRateLimitError"

\* C8: a Transport invocation that raises in attempt k < max_retries is
\* followed by one sleep of 2^k seconds and attempt k + 1, whatever caused the
\* earlier retries; in attempt max_retries it ends the call with a Generic
\* error and no sleep.  A call whose every attempt fails in the Transport has
\* made max_retries + 1 invocations and slept 1, 2, ..., 2^(max_retries-1).
C8_TransportBackoff ==
    /\ [][ (transportCalls' = transportCalls + 1 /\ responsesSeen' = responsesSeen) =>
            IF attempt < max_retries
            THEN /\ sleeps' = Append(sleeps, 2 ^ attempt)
                 /\ attempt' = attempt + 1
                 /\ pc' = "loop"
            ELSE /\ sleeps' = sleeps
                 /\ pc' = "done"
                 /\ outcome'.kind = "raise"
                 /\ outcome'.error.kind = "PaymoAPIError" ]_vars
    /\ []( (pc = "done" /\ outcome.error = RequestFailed
              /\ \A i \in 1..Len(why) : why[i] = "transport") =>
            /\ transportCalls = max_retries + 1
            /\ sleeps = [i \in 1..max_retries |-> 2 ^ (i - 1)] )

C8_Witness ==
    /\ pc = "done"
    /\ max_retries = 2
    /\ outcome.error = RequestFailed
    /\ why = <<"transport", "transport">>
    /\ sleeps = <<1, 2>>

\* C9: when classification raises the RateLimit error for a 429 response the
\* Tracker did not intercept and attempts remain, the call sleeps for the
\* integer value of the Retry-After header when the header holds one, and
\* for 60 seconds when the header is absent.
C9_RateLimitErrorDelay ==
    [][ (pc = "classify" /\ response.status_code = 429 /\ attempt < max_retries
            /\ ~ShouldRetry(handler, response)
            /\ (RetryAfterHeader = None \/ IsNumeral(RetryAfterHeader[1]))) =>
          /\ pc' = "loop"
          /\ sleeps' = Append(sleeps, IF RetryAfterHeader = None THEN 60
                                      ELSE ParseInt(RetryAfterHeader[1])) ]_vars

\* C10: update_rate_limit_info has been invoked once for every response the
\* Transport has returned in the call: not yet for the response just
\* received, and with that very response before should_retry and
\* classification see it; an attempt whose Transport invocation raises
\* invokes it not at all.
C10_UpdatePerResponse ==
    /\ [](/\ pc = "update" => updateCalls = responsesSeen - 1
          /\ pc \in {"check", "classify"} =>
                (updateCalls = responsesSeen /\ updateArg = response)
          /\ pc \in {"idle", "loop", "done"} => updateCalls = responsesSeen)
    /\ [][ /\ (transportCalls' = transportCalls + 1 /\ responsesSeen' = responsesSeen) =>
                updateCalls' = updateCalls
           /\ updateCalls' = updateCalls + 1 => (pc = "update" /\ response \in Responses)
       ]_vars

C10_Witness ==
    /\ pc = "classify"
    /\ response.status_code = 500
    /\ updateCalls = 2
    /\ "transport" \in {why[i] : i \in 1..Len(why)}

(* ------------------------------ Tracker -------------------------------- *)

CarriesAll(headers) == RateLimitHeaderNames \subseteq DOMAIN headers

CarriesAllAsIntegers(headers) ==
    CarriesAll(headers) /\ \A n \in RateLimitHeaderNames : IsNumeral(headers[n])

SnapshotOf(headers) ==
    [limit |-> ParseInt(headers["X-Ratelimit-Limit"]),
     remaining |-> ParseInt(headers["X-Ratelimit-Remaining"]),
     decay_period |-> ParseInt(headers["X-Ratelimit-Decay-Period"]),
     retry_after |-> None]

\* C11: update_rate_limit_info applied to a response that lacks one of the
\* three rate-limit headers leaves the stored snapshot (or its absence) as it
\* was; applied to a response carrying all three as integers it stores
\* exactly those three values, whatever the snapshot was before.
C11_AllOrNothing ==
    [][ /\ ~CarriesAll(response'.headers) => rate_limit_info' = rate_limit_info
        /\ CarriesAllAsIntegers(response'.headers) =>
              rate_limit_info' = Some(SnapshotOf(response'.headers)) ]_vars

C11_Witness ==
    /\ rate_limit_info = Some(RateLimitInfo(5, 0, 5))
    /\ DOMAIN response.headers = {"X-Ratelimit-Limit", "X-Ratelimit-Decay-Period"}
    /\ response.headers["X-Ratelimit-Limit"] = <<"0">>

\* the dispatcher hands the response it just received to the Default Tracker
Observing == pc = "update" /\ handler = "DefaultRateLimitHandler"

\* C12 as stated: the snapshot starts absent, every observed response that
\* carries all three rate-limit headers makes the snapshot equal to that
\* response's (limit, remaining, decay_period), and nothing else changes it;
\* so the snapshot is absent iff no response so far carried all three and
\* otherwise is the triple of the most recent response that did.
C12_MostRecentCarrier ==
    [][ handler = "DefaultRateLimitHandler" =>
          IF Observing /\ CarriesAll(response.headers)
          THEN /\ CarriesAllAsIntegers(response.headers)
               /\ rate_limit_info' = Some(SnapshotOf(response.headers))
          ELSE rate_limit_info' = rate_limit_info ]_vars

\* C12 amended: only a response that carries all three headers as integers
\* counts; the snapshot is the triple of the most recent such response and
\* is absent while there has been none.
C12_MostRecentIntegerCarrier ==
    [][ handler = "DefaultRateLimitHandler" =>
          IF Observing /\ CarriesAllAsIntegers(response.headers)
          THEN rate_limit_info' = Some(SnapshotOf(response.headers))
          ELSE rate_limit_info' = rate_limit_info ]_vars

\* a snapshot taken earlier in the call survives a later response that
\* carries all three headers, one of them not an integer
C12_Witness ==
    /\ handler = "DefaultRateLimitHandler"
    /\ rate_limit_info = Some(RateLimitInfo(9, 5, 5))
    /\ why = <<"error", "error">>
    /\ pc = "done"
    /\ outcome = Raised(ValueError)
    /\ method = "GET"
    /\ responsesSeen = 3
    /\ updateCalls = 3

(* ----------------------- get_paginated and delete ---------------------- *)

Paginating == apiCall = "get_paginated"

RECURSIVE Flatten(_)
Flatten(pages) == IF pages = <<>> THEN <<>> ELSE Head(pages) \o Flatten(Tail(pages))

FetchedAbThenC ==
    /\ Len(fetched) >= 2
    /\ fetched[1] = <<"a", "b">>
    /\ fetched[2] = <<"c">>

\* C14: get_paginated keeps fetching until a page is empty: it returns only
\* after a page without items;
\* with page_size 2 and pages [a,b], [c], [] it has made three GET calls
\* when it returns [a,b,c].
C14_UntilEmptyPage ==
    (Paginating /\ apiOutcome.kind = "return") =>
      /\ fetched[Len(fetched)] = <<>>
      /\ (page_size = 2 /\ FetchedAbThenC) =>
            getCalls = 3

\* the caller's params as they were before get_paginated touched anything
BaseEntries == IF base_params = None THEN EmptyMapping ELSE base_params[1]

\* C15: the i-th dispatcher call of a get_paginated call carries page = i
\* and per_page = page_size together with every base parameter under another
\* key; pages start at 1 and go up by one.
C15_PageParams ==
    /\ (Paginating /\ getCalls >= 1) =>
          /\ DOMAIN paginated_params = DOMAIN BaseEntries \cup {"page", "per_page"}
          /\ paginated_params["page"] = getCalls
          /\ paginated_params["per_page"] = page_size
          /\ \A k \in DOMAIN BaseEntries \ {"page", "per_page"} :
                paginated_params[k] = BaseEntries[k]
    /\ Paginating => page = getCalls

C15_Witness ==
    /\ Paginating
    /\ "page" \in DOMAIN BaseEntries
    /\ BaseEntries["page"] = 9
    /\ getCalls = 2
    /\ page_size = 1
    /\ paginated_params["page"] = 2
    /\ paginated_params["per_page"] = 1
    /\ pc = "update"

\* the items a page body holds, in the claim's words
ClaimedItems(b) ==
    IF b.type = "list" THEN b.items
    ELSE IF b.type = "dict" /\ "data" \in b.keys THEN b.data
    ELSE IF b.type = "dict" /\ "results" \in b.keys THEN b.results
    ELSE <<>>

\* C16: a page's items are the bare list, or the mapping's 'data', or, only
\* when 'data' is not a key, its 'results'; a mapping with neither key, an
\* empty item list, or a body that is neither list nor mapping ends the loop
\* and the call returns what earlier pages gave, without raising.
C16_PageShapes ==
    [][ (Paginating /\ pc = "done" /\ apiOutcome.kind = "none" /\ outcome.kind = "return") =>
          LET b == outcome.value
          IN  /\ all_results' = all_results \o ClaimedItems(b)
              /\ ClaimedItems(b) = <<>> => apiOutcome' = ApiReturned(all_results, FALSE)
              /\ ClaimedItems(b) # <<>> => apiOutcome'.kind # "raise" ]_vars

C16_Witness ==
    /\ Paginating
    /\ outcome = Returned(DictOf({"data", "results"}, <<>>, <<"c">>))
    /\ apiOutcome = ApiReturned(<<"b", "a">>, FALSE)
    /\ getCalls = 2

\* C17: when the dispatcher call for page k fails, get_paginated raises that
\* same error; it requests no later page, returns no partial result and does
\* not request page k again.
C17_NoRetryOfPages ==
    /\ [][ (Paginating /\ pc = "done" /\ apiOutcome.kind = "none" /\ outcome.kind = "raise") =>
             /\ apiOutcome' = ApiRaised(outcome.error)
             /\ getCalls' = getCalls
             /\ pc' = "done" ]_vars
    /\ [](Paginating /\ outcome.kind = "raise" /\ apiOutcome.kind # "none" =>
             /\ apiOutcome = ApiRaised(outcome.error)
             /\ getCalls = Len(fetched) + 1
             /\ page = getCalls)

C17_Witness ==
    /\ Paginating
    /\ apiOutcome.kind = "raise"
    /\ apiOutcome.error.kind = "PaymoNotFoundError"
    /\ fetched = << <<"a", "b">> >>
    /\ all_results = <<"a", "b">>
    /\ getCalls = 2

APIErrorKinds ==
    {"PaymoAPIError", "PaymoAuthenticationError", "PaymoRateLimitError",
     "PaymoValidationError", "PaymoNotFoundError", "PaymoServerError"}

\* C18: delete never raises an APIError; it returns True exactly when its
\* dispatcher call returned (which the dispatcher does on a 2xx response
\* only) and False whenever the dispatcher call raised an APIError of any kind.
C18_DeleteIsBoolean ==
    (apiCall = "delete" /\ apiOutcome.kind # "none") =>
      /\ apiOutcome.kind = "raise" => apiOutcome.error.kind \notin APIErrorKinds
      /\ apiOutcome = ApiReturned(<<>>, TRUE) <=> outcome.kind = "return"
      /\ (outcome.kind = "raise" /\ outcome.error.kind \in APIErrorKinds) =>
            apiOutcome = ApiReturned(<<>>, FALSE)

C18_Witness ==
    /\ apiCall = "delete"
    /\ apiOutcome = ApiReturned(<<>>, FALSE)
    /\ outcome.kind = "raise"
    /\ outcome.error.kind = "PaymoNotFoundError"
    /\ transportCalls = 4

(* --------------------------- request headers --------------------------- *)

C20_HeadersAreProviders ==
    sentHeaders # None => sentHeaders[1] = AuthGetHeaders(auth)

(* ------------------------- the two retry paths ------------------------- *)

\* the step about to be taken raises inside the try body of the attempt
RaisesInAttempt ==
    \/ pc = "update" /\ UpdateRateLimitInfo(handler, rate_limit_info, response).raised
    \/ /\ pc = "check" /\ ShouldRetry(handler, response) /\ attempt < max_retries
       /\ GetRetryDelay(handler, response).raised
    \/ pc = "classify" /\ HandleResponse(response).raised

\* C24: an error other than the RateLimit error raised in attempt k (by the
\* Transport, by classification, for an unsupported method, or by the
\* Tracker) is followed by a sleep of 2^k and attempt k + 1 when
\* k < max_retries and ends the call, re-raised as it is, when
\* k = max_retries; a call with an unsupported method invokes neither the
\* Transport nor the Tracker and fails after max_retries backoff sleeps.
C24_EveryErrorRetried ==
    /\ [][ ( /\ \/ RaisesInAttempt
                \/ pc = "loop" /\ attempts' = attempts + 1 /\ responsesSeen' = responsesSeen
             /\ RaisedInAttempt.kind # "PaymoRateLimitError" ) =>
            IF attempt < max_retries
            THEN /\ sleeps' = Append(sleeps, 2 ^ attempt)
                 /\ attempt' = attempt + 1
                 /\ pc' = "loop"
                 /\ outcome' = NoOutcome
            ELSE /\ sleeps' = sleeps
                 /\ pc' = "done"
                 /\ outcome' = Raised(RaisedInAttempt) ]_vars
    /\ []( (pc = "done" /\ method \notin SupportedMethods /\ max_retries >= 0) =>
             /\ transportCalls = 0
             /\ updateCalls = 0
             /\ sleeps = [i \in 1..max_retries |-> 2 ^ (i - 1)]
             /\ outcome = Raised(UnsupportedMethod) )

C24_Witness ==
    /\ pc = "done"
    /\ max_retries = 2
    /\ attempts = 3
    /\ why = <<"transport", "error">>
    /\ sleeps = <<1, 2>>
    /\ outcome.kind = "raise"
    /\ outcome.error.kind = "PaymoNotFoundError"

\* each attempt sleeps at most once and a sleep moves on to the next attempt
OneSleepPerAttempt ==
    /\ [](/\ Len(sleeps) = attempt
          /\ attempts \in {attempt, attempt + 1}
          /\ attempts <= max_retries + 1)
    /\ [][ /\ Len(sleeps') <= Len(sleeps) + 1
           /\ Len(sleeps') = Len(sleeps) + 1 =>
                 (attempt' = attempt + 1 /\ pc' = "loop" /\ pc # "done") ]_vars

C28_DelayPathsAgree ==
    (InFlight /\ response.status_code = 429
        /\ (RetryAfterHeader = None \/ IsNumeral(RetryAfterHeader[1]))) =>
      /\ ~DefaultGetRetryDelay(response).raised
      /\ HandleResponse(response).error.kind = "PaymoRateLimitError"
      /\ DefaultGetRetryDelay(response).value = RetryAfterOr60(HandleResponse(response).error)

\* C29: while get_paginated runs and after it has returned or raised, the
\* mapping the caller passed as params holds what it held before the call.
C29_ParamsUntouched ==
    Paginating => params = base_params

\* C30: a response carrying all three rate-limit headers, one of them not an
\* integer, leaves the snapshot as it was and the request goes on as if the
\* headers were absent: no error and no sleep comes from it, and a 2xx
\* response is returned in that attempt.
C30_MalformedHeadersIgnored ==
    [][ (InFlight /\ CarriesAll(response.headers)
            /\ ~CarriesAllAsIntegers(response.headers)) =>
          /\ rate_limit_info' = rate_limit_info
          /\ pc = "update" => pc' = "check"
          /\ IsSuccess(response.status_code) =>
                /\ sleeps' = sleeps
                /\ pc' \in {"check", "classify", "done"}
                /\ pc' = "done" => outcome' = Returned(response.data) ]_vars


(* ----------------------- credentials on the wire ----------------------- *)

\* AuthenticationProvider.get_auth_tuple(): the (email, password) pair of the
\* credential-pair provider, None for the others
AuthGetAuthTuple(a) ==
    IF a = "BasicAuthProvider" THEN Some(<<"email", "password">>) ELSE None

\* the keyword arguments _make_request passes to http_client.get/post/put/delete
TransportKeywords(m) ==
    IF m \in {"POST", "PUT"} THEN {"json", "headers", "params", "timeout"}
    ELSE {"headers", "params", "timeout"}

\* the credential pair the http_client invocation of method m is supplied
SuppliedAuth(m, a) ==
    IF "auth" \in TransportKeywords(m) THEN AuthGetAuthTuple(a) ELSE None

\* C21: with the BasicAuthProvider every http_client invocation made by
\* _make_request is supplied the provider's (email, password) pair, so that the
\* request carries credentials although the provider adds no header.
C21_PairSupplied ==
    (auth = "BasicAuthProvider" /\ sentHeaders # None) =>
        /\ SuppliedAuth(method, auth) = AuthGetAuthTuple(auth)
        /\ SuppliedAuth(method, auth) # None \/ "Authorization" \in DOMAIN sentHeaders[1]


(* ----------------------------- PaymoConfig ----------------------------- *)

\* values of the Optional[str] fields: None, "" and a non-empty string
OptionalStrs == {None, Some(<<>>), Some(<<"k">>)}

\* values of the numeric fields, around the limits validate tests
ConfigNumbers == {-1, 0, 1}

\* the fields of PaymoConfig that validate reads
PaymoConfig(email, password, api_key, timeout, retries, backoff_factor) ==
    [email |-> email, password |-> password, api_key |-> api_key, timeout |-> timeout,
     max_retries |-> retries, backoff_factor |-> backoff_factor]

Configs ==
    { PaymoConfig(e, p, k, t, r, b) :
        e \in OptionalStrs, p \in OptionalStrs, k \in OptionalStrs,
        t \in ConfigNumbers, r \in ConfigNumbers, b \in ConfigNumbers }

\* PaymoConfig.validate(): returns None or raises ValueError
Validate(c) ==
    IF ~TruthyStr(c.email) /\ ~TruthyStr(c.api_key) THEN Raises(ValueError)
    ELSE IF TruthyStr(c.email) /\ ~TruthyStr(c.password) THEN Raises(ValueError)
    ELSE IF c.timeout <= 0 THEN Raises(ValueError)
    ELSE IF c.max_retries < 0 THEN Raises(ValueError)
    ELSE IF c.backoff_factor < 0 THEN Raises(ValueError)
    ELSE Ok(NoneBody)

\* a caller constructs a PaymoConfig
LoadConfig ==
    /\ cfg = None
    /\ \E c \in Configs : cfg' = Some(c)
    /\ UNCHANGED <<client, validated, loops, observed>>

\* a caller invokes validate() on the configuration
ValidateConfig ==
    /\ cfg # None
    /\ validated = NoOutcome
    /\ validated' = IF Validate(cfg[1]).raised THEN Raised(Validate(cfg[1]).error)
                    ELSE Returned(Validate(cfg[1]).value)
    /\ UNCHANGED <<client, cfg, loops, observed>>

ConfigNext == LoadConfig \/ ValidateConfig

ConfigSpec == Init /\ [][ConfigNext]_vars

\* the condition the claim gives for acceptance
Acceptable(c) ==
    /\ (TruthyStr(c.email) /\ TruthyStr(c.password)) \/ TruthyStr(c.api_key)
    /\ c.timeout > 0
    /\ c.max_retries >= 0
    /\ c.backoff_factor >= 0

\* C22: validate returns normally iff (email and password are present or an
\* api_key is present) and timeout > 0 and max_retries >= 0 and
\* backoff_factor >= 0, and raises ValueError otherwise; a configuration with an
\* api_key is accepted whatever email and password hold.
C22_ValidateAcceptsIff ==
    validated # NoOutcome =>
        /\ validated = Returned(NoneBody) <=> Acceptable(cfg[1])
        /\ validated # Returned(NoneBody) => validated = Raised(ValueError)


(* ------------------------- header-name letter case --------------------- *)

\* a header name as a server may spell it: all in lower case
LowerCase(n) ==
    CASE n = "Retry-After" -> "retry-after"
      [] n = "X-Ratelimit-Limit" -> "x-ratelimit-limit"
      [] n = "X-Ratelimit-Remaining" -> "x-ratelimit-remaining"
      [] n = "X-Ratelimit-Decay-Period" -> "x-ratelimit-decay-period"
      [] OTHER -> n

\* the canonical spelling of a header name
TitleCase(n) ==
    IF \E c \in HeaderNames : LowerCase(c) = n
    THEN CHOOSE c \in HeaderNames : LowerCase(c) = n
    ELSE n

\* dict(response.headers): a plain dict keyed by the names as the server
\* spelled them, here all in lower case
Recased(h) ==
    [n \in {LowerCase(c) : c \in DOMAIN h} |-> h[TitleCase(n)]]

CaseHeaderValues == {<<"5">>, <<"7">>}

CaseHeaderSets == UNION { [D -> CaseHeaderValues] : D \in SUBSET HeaderNames }

\* responses of RequestsHTTPClient whose header names are spelled canonically
\* or in lower case
CaseResponses ==
    { HTTPResponse(st, h, DictWithMessage) :
        st \in {200, 429}, h \in CaseHeaderSets \cup {Recased(g) : g \in CaseHeaderSets} }

\* a response reaches the three places that look its headers up:
\* update_rate_limit_info, get_retry_delay and _handle_response
ReceiveAnyCase ==
    /\ pc = "idle"
    /\ \E r \in CaseResponses :
          LET u == DefaultUpdateRateLimitInfo(rate_limit_info, r)
              d == DefaultGetRetryDelay(r)
              e == HandleResponse(r)
          IN  /\ response' = r
              /\ rate_limit_info' = IF u.raised THEN rate_limit_info ELSE u.value
              /\ sleeps' = IF d.raised THEN <<>> ELSE <<d.value>>
              /\ outcome' = IF e.raised THEN Raised(e.error) ELSE Returned(e.value)
    /\ UNCHANGED <<config, pc, attempt, updateArg, counters, why, sentHeaders>>

CaseInit == Init /\ handler = "DefaultRateLimitHandler"

CaseNext == ReceiveAnyCase

CaseSpec == CaseInit /\ [][CaseNext]_vars

\* the response with every header name in its canonical spelling
CanonicalResponse(r) ==
    HTTPResponse(r.status_code,
                 [n \in {TitleCase(c) : c \in DOMAIN r.headers} |-> r.headers[
                     IF n \in DOMAIN r.headers THEN n ELSE LowerCase(n)]],
                 r.data)

\* C23: a response whose Retry-After and X-Ratelimit-* headers are spelled in
\* another letter case gives the same retry delay, the same RateLimit error
\* (retry_after included) and the same snapshot update as the response with the
\* canonically spelled headers.
C23_CaseInsensitiveLookup ==
    [][ LET c == CanonicalResponse(response')
        IN  /\ response'.status_code = 429 => sleeps' = <<DefaultGetRetryDelay(c).value>>
            /\ outcome' = IF HandleResponse(c).raised THEN Raised(HandleResponse(c).error)
                          ELSE Returned(HandleResponse(c).value)
            /\ rate_limit_info' = DefaultUpdateRateLimitInfo(rate_limit_info, c).value ]_vars



(* ------------------- concurrent calls on one client -------------------- *)

\* what the client and its sequential calls hold, the Tracker's snapshot apart
sequential == <<handler, method, max_retries, auth, request_headers, wrapper, pc, attempt,
                response, updateArg, outcome, counters, sleeps, why, sentHeaders>>

\* the X-Ratelimit-* headers of two different backend states
TripleOf(v) == [n \in RateLimitHeaderNames |-> v]

\* responses the concurrent calls receive: with no rate-limit header or with one
\* of two complete triples
ConcurrentResponses ==
    { HTTPResponse(st, h, DictWithMessage) :
        st \in {200, 429}, h \in {EmptyMapping, TripleOf(<<"5">>), TripleOf(<<"9">>)} }

\* the local variables of thread t after the step `l`
LoopSet(t, l) == loops' = [loops EXCEPT ![t] = l]

\* an except clause of _make_request in thread t: sleep and continue while
\* attempts remain, re-raise otherwise
LoopExcept(t) ==
    LET l == loops[t]
    IN  IF l.attempt < l.max_retries
        THEN LoopSet(t, [l EXCEPT !.pc = "loop", !.attempt = l.attempt + 1,
                                  !.response = NoResponse, !.built = None])
        ELSE LoopSet(t, [l EXCEPT !.pc = "done", !.outcome = "raise",
                                  !.response = NoResponse, !.built = None])

\* thread t enters _make_request
LoopBegin(t) ==
    /\ handler = "DefaultRateLimitHandler"
    /\ loops[t].pc = "idle"
    /\ \E mr \in 0..MaxRetriesBound :
          LoopSet(t, [IdleLoop EXCEPT !.pc = "loop", !.max_retries = mr])
    /\ UNCHANGED <<sequential, rate_limit_info, cfg, validated, observed>>

\* the http_client call of thread t returns a response
LoopTransportResponds(t) ==
    /\ loops[t].pc = "loop"
    /\ \E r \in ConcurrentResponses :
          LET u == DefaultUpdateRateLimitInfo(None, r)
          IN  /\ LoopSet(t, [loops[t] EXCEPT !.pc = "update", !.response = r])
              /\ observed' = IF ~u.raised /\ u.value # None
                             THEN observed \cup {u.value} ELSE observed
    /\ UNCHANGED <<sequential, rate_limit_info, cfg, validated>>

\* the http_client call of thread t raises
LoopTransportFails(t) ==
    /\ loops[t].pc = "loop"
    /\ LoopExcept(t)
    /\ UNCHANGED <<sequential, rate_limit_info, cfg, validated, observed>>

\* update_rate_limit_info in thread t reads the three headers and builds the
\* RateLimitInfo object; nothing shared is read or written
LoopBuild(t) ==
    /\ loops[t].pc = "update"
    /\ LET u == DefaultUpdateRateLimitInfo(None, loops[t].response)
       IN  IF u.raised THEN LoopExcept(t)
           ELSE IF u.value = None THEN LoopSet(t, [loops[t] EXCEPT !.pc = "check"])
           ELSE LoopSet(t, [loops[t] EXCEPT !.pc = "store", !.built = u.value])
    /\ UNCHANGED <<sequential, rate_limit_info, cfg, validated, observed>>

\* variant of LoopStore: the fields are written into the stored snapshot one by
\* one and the thread is preempted before `remaining`
LoopStoreFieldwise(t) ==
    /\ loops[t].pc = "store"
    /\ rate_limit_info' =
          IF rate_limit_info = None THEN loops[t].built
          ELSE Some([loops[t].built[1] EXCEPT !.remaining = rate_limit_info[1].remaining])
    /\ LoopSet(t, [loops[t] EXCEPT !.pc = "check", !.built = None])
    /\ UNCHANGED <<sequential, cfg, validated, observed>>

\* self.rate_limit_info = RateLimitInfo(...): one attribute store of the object
\* thread t has built
LoopStore(t) ==
    /\ loops[t].pc = "store"
    /\ rate_limit_info' = loops[t].built
    /\ LoopSet(t, [loops[t] EXCEPT !.pc = "check", !.built = None])
    /\ UNCHANGED <<sequential, cfg, validated, observed>>

\* should_retry and attempt < max_retries in thread t: sleep and continue, or
\* go on to _handle_response
LoopCheck(t) ==
    /\ loops[t].pc = "check"
    /\ LET l == loops[t]
       IN  IF DefaultShouldRetry(l.response) /\ l.attempt < l.max_retries
           THEN IF DefaultGetRetryDelay(l.response).raised THEN LoopExcept(t)
                ELSE LoopSet(t, [l EXCEPT !.pc = "loop", !.attempt = l.attempt + 1,
                                          !.response = NoResponse])
           ELSE LoopSet(t, [l EXCEPT !.pc = "classify"])
    /\ UNCHANGED <<sequential, rate_limit_info, cfg, validated, observed>>

\* return self._handle_response(response) in thread t
LoopClassify(t) ==
    /\ loops[t].pc = "classify"
    /\ IF HandleResponse(loops[t].response).raised THEN LoopExcept(t)
       ELSE LoopSet(t, [loops[t] EXCEPT !.pc = "done", !.outcome = "return",
                                        !.response = NoResponse])
    /\ UNCHANGED <<sequential, rate_limit_info, cfg, validated, observed>>

ConcurrentInit == Init /\ handler = "DefaultRateLimitHandler"

ConcurrentNext ==
    \E t \in Loops :
        \/ LoopBegin(t)
        \/ LoopTransportResponds(t)
        \/ LoopTransportFails(t)
        \/ LoopBuild(t)
        \/ LoopStore(t)
        \/ LoopCheck(t)
        \/ LoopClassify(t)

ConcurrentSpec == ConcurrentInit /\ [][ConcurrentNext]_vars

\* C26: two calls that run _make_request concurrently on one client with one
\* DefaultRateLimitHandler each keep their own attempt counter (a step of one
\* call leaves the other's local variables alone, each call makes at most
\* max_retries + 1 attempts and raises only after its own last attempt), and the
\* shared snapshot is at all times None or the whole (limit, remaining,
\* decay_period) triple built from one single response.
C26_LoopsIndependentSnapshotWhole ==
    /\ [](\A t \in Loops : loops[t].attempt <= loops[t].max_retries)
    /\ [](\A t \in Loops : (loops[t].pc = "done" /\ loops[t].outcome = "raise") =>
                              loops[t].attempt = loops[t].max_retries)
    /\ [](rate_limit_info = None \/ rate_limit_info \in observed)
    /\ [][ \A t \in Loops : loops'[t] # loops[t] =>
              \A u \in Loops \ {t} : loops'[u] = loops[u] ]_vars

C26_Witness ==
    /\ loops[1].pc = "check" /\ loops[1].attempt = 1
    /\ "X-Ratelimit-Limit" \in DOMAIN loops[1].response.headers
    /\ loops[2].pc = "check" /\ loops[2].attempt = 0
    /\ "X-Ratelimit-Limit" \in DOMAIN loops[2].response.headers
    /\ loops[1].response.headers # loops[2].response.headers
    /\ Cardinality(observed) = 2
    /\ rate_limit_info = DefaultUpdateRateLimitInfo(None, loops[1].response).value

====
